---- MODULE Spec2Model ----
(***************************************************************************)
(* A model of serial_monitor.py: the log-line classifier (LogEntry), the   *)
(* entry store with its two trims (LogDisplayWidget.add_log_entry,         *)
(* MainWindow.trim_logs), the filter view (LogDisplayWidget.apply_filters) *)
(* and the handlers of MainWindow that drive them.                         *)
(*                                                                         *)
(* A Python str is a sequence of one-character strings; None is a value    *)
(* of its own.  Every handler of the UI thread is one action.              *)
(*                                                                         *)
(* Spec, ParseSpec and FilterSpec take the reader thread and the signal    *)
(* queue as one step, "a line is delivered".  LinkSpec has the reader      *)
(* thread of SerialWorker.read_data step by step, the queued signals and   *)
(* MainWindow.disconnect_serial as the reader can interleave with it.      *)
(* SendSpec has the outbound writes, SessionSpec the prompts of clear and  *)
(* new session and the auto-save file, ExportSpec the export dialog,       *)
(* CsvSpec the CSV record of one entry.                                    *)
(***************************************************************************)
EXTENDS Integers, Sequences, FiniteSets, TLC

VARIABLES
    line,               \* ParseSpec: the text handed to LogEntry(raw_data, ...)
    entry,              \* ParseSpec: the LogEntry constructed from it, or NoEntry
    log_entries,        \* LogDisplayWidget.log_entries
    filtered_entries,   \* LogDisplayWidget.filtered_entries
    level_filter,       \* LogDisplayWidget.level_filter
    max_lines,          \* LogDisplayWidget.max_lines
    settings,           \* MainWindow.settings (the keys the store reads)
    level_checkboxes,   \* MainWindow.level_checkboxes, their checked states
    connected,          \* MainWindow.connected
    serial_worker,      \* MainWindow.serial_worker: "None" or "worker"
    worker_thread,      \* MainWindow.worker_thread: "None" or "thread"
    running,            \* SerialWorker.running
    serial_port,        \* SerialWorker.serial_port: "None", "open" or "closed"
    clock,              \* number of LogEntry objects constructed so far
    hist,               \* history: the entries appended since the last clear
    size_trimmed,       \* history: the handler whose size check cut the store
                        \* in the last step, "no" if none did
    pc,                 \* the reader thread's place in SerialWorker.read_data
    buffer,             \* read_data's local buffer
    rxbuf,              \* the port's input buffer (in_waiting is its length)
    wire,               \* what the device has yet to send
    fault,              \* the device is gone: every use of the port raises
    events,             \* the signals queued for the UI thread, oldest first
    ui,                 \* the UI thread's place in disconnect_serial, or "idle"
    ui_raised,          \* the exception the last UI handler ended with, or "no"
    message_box,        \* the message box the last UI handler showed, or "None"
    got,                \* history: the text read_data has read since it began
    handed,             \* history: the lines read_data has emitted since it began
    tx_log,             \* history: the calls of serial_port.write, [data, ok]
    log_file_path,      \* MainWindow.log_file_path: "None" or a path
    dialog,             \* the ExportDialog (log_entries, level_checkboxes)
                        \* or NoDialog
    exported,           \* history: the entries the last export wrote
    csv,                \* CsvSpec: the header and the record format_entry made
    saved               \* history: the last file auto_save_logs wrote

vars == <<line, entry, log_entries, filtered_entries, level_filter, max_lines,
          settings, level_checkboxes, connected, serial_worker, worker_thread,
          running, serial_port, clock, hist, size_trimmed,
          pc, buffer, rxbuf, wire, fault, events, ui, ui_raised, message_box,
          got, handed, tx_log, log_file_path, dialog, exported,
          csv, saved>>

parseVars == <<line, entry>>

storeVars == <<log_entries, filtered_entries, level_filter, max_lines,
               settings, level_checkboxes, clock, hist, size_trimmed>>

connVars == <<connected, serial_worker, worker_thread, running, serial_port>>

\* the reader thread, the port's traffic and the signal queue
linkVars == <<pc, buffer, rxbuf, wire, fault, events, ui, ui_raised,
              message_box, got, handed, tx_log>>

\* the auto-save file and the export dialog
fileVars == <<log_file_path, dialog, exported, csv, saved>>

-----------------------------------------------------------------------------
(* Bounds of the model.                                                    *)

\* longest text handed to LogEntry in ParseSpec
MaxLineLen == 5

\* number of LogEntry objects one behaviour of Spec constructs
MaxEntries == 4

\* longest store FilterSpec starts from
MaxStore == 2

\* LinkSpec: the user connects again only when at most this many queued
\* signals still wait for the UI thread
MaxPending == 1

-----------------------------------------------------------------------------
(* Program constants.  The store's sizes are scaled down so that TLC can   *)
(* fill a store past each of them, keeping the order they have in the      *)
(* source: TRIM_KEEP = MAX_LINES_MIN < DEFAULT_MAX_LINES <= MAX_LINES_MAX. *)

\* trim_logs keeps the last 1000 entries (scaled: 1000 -> 2)
TRIM_KEEP == 2

\* max_lines_spin.setRange(1000, 100000) (scaled: 1000 -> 2, 100000 -> 3)
MAX_LINES_MIN == 2
MAX_LINES_MAX == 3

\* DEFAULT_SETTINGS['max_lines'], LogDisplayWidget.max_lines = 10000
\* (scaled: 10000 -> 3)
DEFAULT_MAX_LINES == 3

\* log_file_size_spin.setRange(1, 100) (scaled: 100 -> 2)
LOG_FILE_SIZE_MIN == 1
LOG_FILE_SIZE_MAX == 2

\* DEFAULT_SETTINGS['log_file_size_mb'] = 10 (scaled: 10 -> 2)
DEFAULT_LOG_FILE_SIZE_MB == 2

\* the 1024 of "total_size / 1024" and of "log_file_size_mb * 1024"
\* (scaled: 1024 -> 2, so that a megabyte is 4 characters)
KB == 2

\* number of log levels: len(Config.LOG_LEVELS), [True] * 7
NUM_LEVELS == 7

-----------------------------------------------------------------------------
(* Strings.                                                                *)

\* None as the value of an Optional[str] field: no string holds this element
NoneStr == <<"None">>

\* None as the value of LogEntry.level
NoneLevel == "None"

\* Characters str.strip() removes and the pattern \s matches.
Whitespace == {" ", "\t", "\r", "\n"}

\* The class [0-4] of level_pattern.
LevelDigits == {"0", "1", "2", "3", "4"}

\* The characters of the texts ParseSpec classifies: both markers' characters,
\* a digit outside [0-4], a whitespace character and the upper-case "W".
\* A line holds no "\n": read_data splits on it and a QLineEdit holds one line.
Alphabet == {"[", "]", "2", "5", " ", "*", "w", "m", "W"}

\* index of the first character of s that is no whitespace, Len(s)+1 if none
FirstNonSpace(s) ==
    IF \E i \in 1..Len(s) : s[i] \notin Whitespace
    THEN CHOOSE i \in 1..Len(s) :
            /\ s[i] \notin Whitespace
            /\ \A j \in 1..(i-1) : s[j] \in Whitespace
    ELSE Len(s) + 1

\* index of the last character of s that is no whitespace, 0 if none
LastNonSpace(s) ==
    IF \E i \in 1..Len(s) : s[i] \notin Whitespace
    THEN CHOOSE i \in 1..Len(s) :
            /\ s[i] \notin Whitespace
            /\ \A j \in (i+1)..Len(s) : s[j] \in Whitespace
    ELSE 0

\* str.lstrip() in the place of str.strip(): trailing whitespace stays
StripLeftOnly(s) == SubSeq(s, FirstNonSpace(s), Len(s))

\* str.strip()
Strip(s) == SubSeq(s, FirstNonSpace(s), LastNonSpace(s))

\* what \s* consumes at the start of s: the whole leading run of whitespace
SkipSpaces(s) == SubSeq(s, FirstNonSpace(s), Len(s))

\* what (.*) captures at the start of s: everything up to the first "\n"
DotStar(s) ==
    IF \E i \in 1..Len(s) : s[i] = "\n"
    THEN SubSeq(s, 1, (CHOOSE i \in 1..Len(s) :
                          /\ s[i] = "\n"
                          /\ \A j \in 1..(i-1) : s[j] # "\n") - 1)
    ELSE s

-----------------------------------------------------------------------------
(* LogEntry.                                                               *)

\* re.match(r'^\[([0-4])\]\s*(.*)', raw): does it match
LevelMatch(raw) ==
    /\ Len(raw) >= 3
    /\ raw[1] = "["
    /\ raw[2] \in LevelDigits
    /\ raw[3] = "]"

\* wm_pattern compiled with re.IGNORECASE: "*Wm", "*wM", "*WM" match too
WmMatchIgnoreCase(raw) ==
    /\ Len(raw) >= 3
    /\ raw[1] = "*"
    /\ raw[2] \in {"w", "W"}
    /\ raw[3] \in {"m", "M"}

\* re.match(r'^\*wm\s*(.*)', raw): does it match
WmMatch(raw) ==
    /\ Len(raw) >= 3
    /\ raw[1] = "*"
    /\ raw[2] = "w"
    /\ raw[3] = "m"

\* the patterns without their \s*: the capture starts right after the marker
AfterMarkerWithBlanks(raw) == DotStar(SubSeq(raw, 4, Len(raw)))

\* group(2) of level_pattern, group(1) of wm_pattern: the text after the marker
AfterMarker(raw) == DotStar(SkipSpaces(SubSeq(raw, 4, Len(raw))))

\* _parse_log without its else branch: a line with no marker keeps the level
\* and the message the constructor was given
ParseLogNoCatchAll(e) ==
    IF LevelMatch(e.raw_data)
    THEN [e EXCEPT !.level = e.raw_data[2],
                   !.message = DotStar(SkipSpaces(SubSeq(e.raw_data, 4, Len(e.raw_data)))),
                   !.parsed = TRUE]
    ELSE IF WmMatch(e.raw_data)
    THEN [e EXCEPT !.level = "wm",
                   !.message = DotStar(SkipSpaces(SubSeq(e.raw_data, 4, Len(e.raw_data)))),
                   !.parsed = TRUE]
    ELSE e

\* LogEntry._parse_log on an entry whose raw_data is set
ParseLog(e) ==
    IF LevelMatch(e.raw_data)
    THEN [e EXCEPT !.level = e.raw_data[2],
                   !.message = AfterMarker(e.raw_data),
                   !.parsed = TRUE]
    ELSE IF WmMatch(e.raw_data)
    THEN [e EXCEPT !.level = "wm",
                   !.message = AfterMarker(e.raw_data),
                   !.parsed = TRUE]
    ELSE [e EXCEPT !.level = "verbose",
                   !.message = e.raw_data,
                   !.parsed = FALSE]

\* LogEntry.__init__(raw_data, timestamp, level, message)
LogEntry(raw_data, timestamp, level, message) ==
    ParseLog([raw_data  |-> Strip(raw_data),
              timestamp |-> timestamp,
              level     |-> level,
              message   |-> message,
              parsed    |-> FALSE])

\* "no LogEntry constructed yet" in ParseSpec
NoEntry == [raw_data |-> NoneStr, timestamp |-> 0, level |-> NoneLevel,
            message |-> NoneStr, parsed |-> FALSE]

-----------------------------------------------------------------------------
(* Level registry and filter view.                                         *)

\* the keys of Config.LOG_LEVELS
Levels == {"0", "1", "2", "3", "4", "wm", "verbose"}

\* a level_map with the places of 'wm' and 'verbose' exchanged
LevelIdxSwapped(level) ==
    CASE level = "0" -> 0
      [] level = "1" -> 1
      [] level = "2" -> 2
      [] level = "3" -> 3
      [] level = "4" -> 4
      [] level = "wm" -> 6
      [] level = "verbose" -> 5
      [] OTHER -> 2

\* level_map.get(entry.level, 2) of apply_filters
LevelIdx(level) ==
    CASE level = "0" -> 0
      [] level = "1" -> 1
      [] level = "2" -> 2
      [] level = "3" -> 3
      [] level = "4" -> 4
      [] level = "wm" -> 5
      [] level = "verbose" -> 6
      [] OTHER -> 2

\* [True] * 7 and [False] * 7
AllTrue == [i \in 1..NUM_LEVELS |-> TRUE]
AllFalse == [i \in 1..NUM_LEVELS |-> FALSE]

\* the test of apply_filters' loop body; Python's list index i is i + 1 here
Passes(e, filter) ==
    /\ LevelIdx(e.level) < Len(filter)
    /\ filter[LevelIdx(e.level) + 1]

\* the list apply_filters builds from log_entries
FilterEntries(entries, filter) ==
    SelectSeq(entries, LAMBDA e : Passes(e, filter))

\* s[-n:] for n >= 0 (s[-0:] is s[0:], the whole list)
LastN(s, n) ==
    IF n = 0 \/ n >= Len(s) THEN s ELSE SubSeq(s, Len(s) - n + 1, Len(s))

\* sum(len(entry.raw_data) for entry in entries)
RECURSIVE TotalSize(_)
TotalSize(entries) ==
    IF entries = <<>> THEN 0
    ELSE Len(Head(entries).raw_data) + TotalSize(Tail(entries))

-----------------------------------------------------------------------------
(* The window: the fields of LogDisplayWidget and MainWindow the handlers  *)
(* below read and write, as one record w.                                  *)

\* LogDisplayWidget.apply_filters
ApplyFilters(w) ==
    [w EXCEPT !.filtered_entries = FilterEntries(w.log_entries, w.level_filter)]

\* add_log_entry with log_entries[:max_lines] in the place of
\* log_entries[-max_lines:]: the count trim drops the newest entry
AddLogEntryKeepOldest(w, e) ==
    LET appended == Append(w.log_entries, e)
        kept == IF Len(appended) > w.max_lines
                THEN SubSeq(appended, 1, w.max_lines)
                ELSE appended
    IN  ApplyFilters([w EXCEPT !.log_entries = kept])

\* LogDisplayWidget.add_log_entry
AddLogEntry(w, e) ==
    LET appended == Append(w.log_entries, e)
        kept == IF Len(appended) > w.max_lines
                THEN LastN(appended, w.max_lines)
                ELSE appended
    IN  ApplyFilters([w EXCEPT !.log_entries = kept])

\* set_level_filter that keeps only the entries it shows
SetLevelFilterDropping(w, filter) ==
    [w EXCEPT !.level_filter = filter,
              !.log_entries = FilterEntries(w.log_entries, filter),
              !.filtered_entries = FilterEntries(w.log_entries, filter)]

\* LogDisplayWidget.set_level_filter
SetLevelFilter(w, filter) ==
    ApplyFilters([w EXCEPT !.level_filter = filter])

\* LogDisplayWidget.clear_logs
ClearLogsWidget(w) ==
    [w EXCEPT !.log_entries = <<>>, !.filtered_entries = <<>>]

\* trim_logs with log_entries[:1000] in the place of log_entries[-1000:]
TrimLogsKeepOldest(w) ==
    IF Len(w.log_entries) > TRIM_KEEP
    THEN ApplyFilters([w EXCEPT !.log_entries = SubSeq(w.log_entries, 1, TRIM_KEEP),
                                !.trimmed = TRUE])
    ELSE w

\* trim_logs without its call of apply_filters
TrimLogsNoRefresh(w) ==
    IF Len(w.log_entries) > TRIM_KEEP
    THEN [w EXCEPT !.log_entries = LastN(w.log_entries, TRIM_KEEP),
                   !.trimmed = TRUE]
    ELSE w

\* MainWindow.trim_logs; w.trimmed records the status bar's
\* "Logs trimmed due to size limit"
TrimLogs(w) ==
    IF Len(w.log_entries) > TRIM_KEEP
    THEN ApplyFilters([w EXCEPT !.log_entries = LastN(w.log_entries, TRIM_KEEP),
                                !.trimmed = TRUE])
    ELSE w

\* the size test with size_kb = total_size // 1024, a floor division
SizeLimitExceededFloor(total_size, log_file_size_mb) ==
    (total_size \div KB) > log_file_size_mb * KB

\* "size_kb > self.settings['log_file_size_mb'] * 1024" with
\* size_kb = total_size / 1024, a true division: the quotient exceeds the
\* limit exactly when total_size exceeds the limit times 1024.
SizeLimitExceeded(total_size, log_file_size_mb) ==
    total_size > (log_file_size_mb * KB) * KB

\* MainWindow.update_statistics
UpdateStatistics(w) ==
    IF SizeLimitExceeded(TotalSize(w.log_entries), w.settings.log_file_size_mb)
    THEN TrimLogs(w)
    ELSE w

\* MainWindow.update_level_filter
UpdateLevelFilter(w) ==
    LET f == w.level_checkboxes
    IN  UpdateStatistics(
            SetLevelFilter([w EXCEPT !.settings.log_level_filter = f], f))

\* cb.setChecked(v) on checkbox i: toggled is emitted, and update_level_filter
\* runs, only when the state changes
SetChecked(w, i, v) ==
    IF w.level_checkboxes[i] = v
    THEN w
    ELSE UpdateLevelFilter([w EXCEPT !.level_checkboxes[i] = v])

\* "for cb in self.level_checkboxes: cb.setChecked(v)" from checkbox i on
RECURSIVE SetAllChecked(_, _, _)
SetAllChecked(w, i, v) ==
    IF i > NUM_LEVELS THEN w
    ELSE SetAllChecked(SetChecked(w, i, v), i + 1, v)

\* MainWindow.select_all_levels
SelectAllLevels(w) == UpdateLevelFilter(SetAllChecked(w, 1, TRUE))

\* MainWindow.select_no_levels
SelectNoLevels(w) == UpdateLevelFilter(SetAllChecked(w, 1, FALSE))

\* the loop of apply_settings from checkbox i on: each setChecked reads the
\* settings as the toggled handlers before it have left them
RECURSIVE ApplyCheckboxes(_, _)
ApplyCheckboxes(w, i) ==
    IF i > NUM_LEVELS THEN w
    ELSE IF i - 1 < Len(w.settings.log_level_filter)
    THEN ApplyCheckboxes(SetChecked(w, i, w.settings.log_level_filter[i]), i + 1)
    ELSE ApplyCheckboxes(w, i + 1)

\* MainWindow.apply_settings
ApplySettings(w) ==
    UpdateLevelFilter(
        ApplyCheckboxes([w EXCEPT !.max_lines = w.settings.max_lines], 1))

\* QSpinBox.setValue under setRange(lo, hi)
SpinValue(v, lo, hi) == IF v < lo THEN lo ELSE IF v > hi THEN hi ELSE v

\* Config.DEFAULT_SETTINGS
DEFAULT_SETTINGS ==
    [max_lines        |-> DEFAULT_MAX_LINES,
     log_file_size_mb |-> DEFAULT_LOG_FILE_SIZE_MB,
     log_level_filter |-> AllTrue]

\* MainWindow.clear_logs after the user answered the question with Yes
ClearLogsConfirmed(w) == UpdateStatistics(ClearLogsWidget(w))

\* MainWindow.on_data_received; ts is the entry's creation instant
OnDataReceivedW(w, data, ts) ==
    UpdateStatistics(AddLogEntry(w, LogEntry(data, ts, NoneLevel, NoneStr)))

\* the entry send_data echoes: LogEntry(f">> {data}", now, level='2')
SentEntry(data, ts) == LogEntry(<<">", ">", " ">> \o data, ts, "2", NoneStr)

-----------------------------------------------------------------------------
(* Inputs of the model.                                                    *)

\* the lines the reader hands over: one without a marker (1 character), one
\* with a level marker (4 characters)
RxLines == { <<"5">>,
             <<"[", "2", "]", "w">> }

\* the texts the user sends
TxData == { <<"w">> }

\* the checkboxes the user toggles one by one: those of the levels the
\* lines above are given ("2" and "verbose")
ToggleBoxes == {3, 7}

\* the log_level_filter values settings.json holds at startup
LoadedFilters == { AllTrue, [AllTrue EXCEPT ![7] = FALSE] }

-----------------------------------------------------------------------------
(* The state machine of the UI thread.                                     *)

\* the fields of the window as they are
Win ==
    [log_entries      |-> log_entries,
     filtered_entries |-> filtered_entries,
     level_filter     |-> level_filter,
     max_lines        |-> max_lines,
     settings         |-> settings,
     level_checkboxes |-> level_checkboxes,
     trimmed          |-> FALSE]

\* the fields of the window after handler op left them as w
Commit(w, op) ==
    /\ size_trimmed' = IF w.trimmed THEN op ELSE "no"
    /\ log_entries' = w.log_entries
    /\ filtered_entries' = w.filtered_entries
    /\ level_filter' = w.level_filter
    /\ max_lines' = w.max_lines
    /\ settings' = w.settings
    /\ level_checkboxes' = w.level_checkboxes

\* "no ExportDialog is open"
NoDialog ==
    [log_entries |-> <<>>, level_checkboxes |-> <<>>, open |-> FALSE,
     result |-> "none"]

\* "format_entry has not run"
NoCsv == [header |-> <<>>, row |-> <<>>, include_timestamps |-> FALSE,
          made |-> FALSE]

\* "auto_save_logs has written no file"
NoFile == [path |-> "None", entries |-> <<>>]

\* no reader thread, no traffic, no signal queued, the UI thread in no handler
LinkIdle ==
    /\ pc = "none"
    /\ buffer = <<>>
    /\ rxbuf = <<>>
    /\ wire = <<>>
    /\ fault = FALSE
    /\ events = <<>>
    /\ ui = [at |-> "idle", by |-> "none"]
    /\ ui_raised = "no"
    /\ message_box = "None"
    /\ got = <<>>
    /\ handed = <<>>
    /\ tx_log = <<>>

\* MainWindow.__init__: log_file_path = None; no dialog, nothing exported
FilesIdle ==
    /\ log_file_path = "None"
    /\ dialog = NoDialog
    /\ exported = <<>>
    /\ csv = NoCsv
    /\ saved = NoFile

\* MainWindow.__init__ (load_settings, create_control_panel, create_log_panel)
\* and LogDisplayWidget.__init__
Init ==
    /\ line = <<>>
    /\ entry = NoEntry
    /\ log_entries = <<>>
    /\ filtered_entries = <<>>
    /\ level_filter = AllTrue
    /\ max_lines = DEFAULT_MAX_LINES
    /\ \E f \in LoadedFilters :
          /\ settings = [DEFAULT_SETTINGS EXCEPT !.log_level_filter = f]
          /\ level_checkboxes = f
    /\ connected = FALSE
    /\ serial_worker = "None"
    /\ worker_thread = "None"
    /\ running = FALSE
    /\ serial_port = "None"
    /\ clock = 0
    /\ hist = <<>>
    /\ size_trimmed = "no"
    /\ LinkIdle
    /\ FilesIdle

\* toggle_connection while not connected: MainWindow.connect_serial, the port
\* opens (SerialWorker.connect_serial returns True)
ConnectSerial ==
    /\ ~connected
    /\ worker_thread' = "thread"
    /\ serial_worker' = "worker"
    /\ serial_port' = "open"
    /\ running' = TRUE
    /\ connected' = TRUE
    /\ size_trimmed' = "no"
    /\ UNCHANGED <<line, entry, log_entries, filtered_entries, level_filter,
                   max_lines, settings, level_checkboxes, clock, hist>>
    /\ UNCHANGED <<linkVars, fileVars>>

\* toggle_connection while connected: MainWindow.disconnect_serial
DisconnectSerial ==
    /\ connected
    /\ running' = FALSE
    /\ serial_port' = "None"
    /\ connected' = FALSE
    /\ worker_thread' = "None"
    /\ serial_worker' = "None"
    /\ size_trimmed' = "no"
    /\ UNCHANGED <<line, entry, log_entries, filtered_entries, level_filter,
                   max_lines, settings, level_checkboxes, clock, hist>>
    /\ UNCHANGED <<linkVars, fileVars>>

\* MainWindow.on_data_received(data): the slot of the data_received signal
\* the running reader emits
OnDataReceived(data) ==
    /\ serial_worker = "worker" /\ running
    /\ clock < MaxEntries
    /\ clock' = clock + 1
    /\ hist' = Append(hist, LogEntry(data, clock + 1, NoneLevel, NoneStr))
    /\ Commit(OnDataReceivedW(Win, data, clock + 1), "on_data_received")
    /\ UNCHANGED <<line, entry>>
    /\ UNCHANGED connVars
    /\ UNCHANGED <<linkVars, fileVars>>

\* MainWindow.send_data with text data in the input field, the write succeeds
SendData(data) ==
    /\ connected /\ serial_worker = "worker"
    /\ data # <<>>
    /\ serial_port = "open"
    /\ clock < MaxEntries
    /\ clock' = clock + 1
    /\ hist' = Append(hist, SentEntry(data, clock + 1))
    /\ Commit(AddLogEntry(Win, SentEntry(data, clock + 1)), "send_data")
    /\ UNCHANGED <<line, entry>>
    /\ UNCHANGED connVars
    /\ UNCHANGED <<linkVars, fileVars>>

\* the user clicks checkbox i: toggled calls MainWindow.update_level_filter
ToggleLevel(i) ==
    /\ Commit(UpdateLevelFilter([Win EXCEPT !.level_checkboxes[i] = ~@]),
              "update_level_filter")
    /\ UNCHANGED <<line, entry, clock, hist>>
    /\ UNCHANGED connVars
    /\ UNCHANGED <<linkVars, fileVars>>

\* the All button
SelectAll ==
    /\ Commit(SelectAllLevels(Win), "update_level_filter")
    /\ UNCHANGED <<line, entry, clock, hist>>
    /\ UNCHANGED connVars
    /\ UNCHANGED <<linkVars, fileVars>>

\* the None button
SelectNone ==
    /\ Commit(SelectNoLevels(Win), "update_level_filter")
    /\ UNCHANGED <<line, entry, clock, hist>>
    /\ UNCHANGED connVars
    /\ UNCHANGED <<linkVars, fileVars>>

\* MainWindow.clear_logs, the user answers Yes
ClearLogs ==
    /\ Commit(ClearLogsConfirmed(Win), "clear_logs")
    /\ hist' = <<>>
    /\ UNCHANGED <<line, entry, clock>>
    /\ UNCHANGED connVars
    /\ UNCHANGED <<linkVars, fileVars>>

\* "Clear All" of LogDisplayWidget.show_context_menu
ContextClear ==
    /\ Commit(ClearLogsWidget(Win), "clear_logs")
    /\ hist' = <<>>
    /\ UNCHANGED <<line, entry, clock>>
    /\ UNCHANGED connVars
    /\ UNCHANGED <<linkVars, fileVars>>

\* SettingsDialog as the user accepts it: load_current_settings puts the
\* settings in the spin boxes, the user may reset to the defaults and sets
\* the spin boxes to m and mb, get_settings reads them back
DialogSettings(s, reset, m, mb) ==
    LET base == IF reset THEN DEFAULT_SETTINGS ELSE s
    IN  [base EXCEPT
            !.max_lines = SpinValue(m, MAX_LINES_MIN, MAX_LINES_MAX),
            !.log_file_size_mb = SpinValue(mb, LOG_FILE_SIZE_MIN, LOG_FILE_SIZE_MAX)]

\* MainWindow.show_settings, the dialog is accepted
ShowSettings(reset, m, mb) ==
    /\ Commit(ApplySettings(
                [Win EXCEPT !.settings = DialogSettings(settings, reset, m, mb)]),
              "show_settings")
    /\ UNCHANGED <<line, entry, clock, hist>>
    /\ UNCHANGED connVars
    /\ UNCHANGED <<linkVars, fileVars>>

Next ==
    \/ ConnectSerial
    \/ DisconnectSerial
    \/ \E data \in RxLines : OnDataReceived(data)
    \/ \E data \in TxData : SendData(data)
    \/ \E i \in ToggleBoxes : ToggleLevel(i)
    \/ SelectAll
    \/ SelectNone
    \/ ClearLogs
    \/ ContextClear
    \/ \E reset \in BOOLEAN :
       \E m \in MAX_LINES_MIN..MAX_LINES_MAX :
       \E mb \in LOG_FILE_SIZE_MIN..LOG_FILE_SIZE_MAX :
          ShowSettings(reset, m, mb)

Spec == Init /\ [][Next]_vars

-----------------------------------------------------------------------------
(* ParseSpec: LogEntry as a function of the text it is given.              *)

\* the sequences over S of length at most n
SeqsUpTo(S, n) == UNION { [1..k -> S] : k \in 0..n }

\* the window as MainWindow.__init__ leaves it with no settings file
IdleWindow ==
    /\ log_entries = <<>>
    /\ filtered_entries = <<>>
    /\ level_filter = AllTrue
    /\ max_lines = DEFAULT_MAX_LINES
    /\ settings = DEFAULT_SETTINGS
    /\ level_checkboxes = AllTrue
    /\ connected = FALSE
    /\ serial_worker = "None"
    /\ worker_thread = "None"
    /\ running = FALSE
    /\ serial_port = "None"
    /\ clock = 0
    /\ hist = <<>>
    /\ size_trimmed = "no"
    /\ LinkIdle
    /\ FilesIdle

ParseInit ==
    /\ line \in SeqsUpTo(Alphabet, MaxLineLen)
    /\ entry = NoEntry
    /\ IdleWindow

\* LogEntry(data, datetime.now()), as on_data_received constructs it
Construct ==
    /\ entry = NoEntry
    /\ entry' = LogEntry(line, 1, NoneLevel, NoneStr)
    /\ UNCHANGED line
    /\ UNCHANGED storeVars
    /\ UNCHANGED connVars
    /\ UNCHANGED <<linkVars, fileVars>>

\* LogEntry(data, datetime.now(), level=lv), as send_data constructs it
ConstructWithLevel(lv) ==
    /\ entry = NoEntry
    /\ entry' = LogEntry(line, 1, lv, NoneStr)
    /\ UNCHANGED line
    /\ UNCHANGED storeVars
    /\ UNCHANGED connVars
    /\ UNCHANGED <<linkVars, fileVars>>

\* the level send_data passes to LogEntry
SentLevels == {"2"}

ParseNext ==
    \/ Construct
    \/ \E lv \in SentLevels : ConstructWithLevel(lv)

ParseSpec == ParseInit /\ [][ParseNext]_vars

-----------------------------------------------------------------------------
(* FilterSpec: the filter view over stores that hold every level, under    *)
(* every filter set the seven checkboxes can be put in.                    *)

\* one line of each level
LevelLines ==
    { <<"[", "0", "]", "w">>, <<"[", "1", "]", "w">>, <<"[", "2", "]", "w">>,
      <<"[", "3", "]", "w">>, <<"[", "4", "]", "w">>, <<"*", "w", "m">>,
      <<"w">> }

\* the store after the lines of ls were received, one after the other
ReceivedStore(ls) ==
    [i \in 1..Len(ls) |-> LogEntry(ls[i], i, NoneLevel, NoneStr)]

\* the window after at most MaxStore lines were received under the default
\* settings: no trim has run and the view shows every entry
FilterInit ==
    /\ line = <<>>
    /\ entry = NoEntry
    /\ \E ls \in SeqsUpTo(LevelLines, MaxStore) :
          /\ log_entries = ReceivedStore(ls)
          /\ filtered_entries = ReceivedStore(ls)
          /\ hist = ReceivedStore(ls)
          /\ clock = Len(ls)
    /\ level_filter = AllTrue
    /\ max_lines = DEFAULT_MAX_LINES
    /\ settings = DEFAULT_SETTINGS
    /\ level_checkboxes = AllTrue
    /\ connected = TRUE
    /\ serial_worker = "worker"
    /\ worker_thread = "thread"
    /\ running = TRUE
    /\ serial_port = "open"
    /\ size_trimmed = "no"
    /\ LinkIdle
    /\ FilesIdle

FilterNext ==
    \/ \E i \in 1..NUM_LEVELS : ToggleLevel(i)
    \/ SelectAll
    \/ SelectNone

FilterSpec == FilterInit /\ [][FilterNext]_vars

-----------------------------------------------------------------------------
(* SessionSpec: the prompts of "Clear" and "New Session" and the auto-save *)
(* path, over the stores the receptions of Spec build.                     *)

\* "no auto-save file chosen": MainWindow.log_file_path = None
NoPath == "None"

\* MainWindow.clear_logs, the user answers No: nothing is cleared and
\* update_statistics does not run
ClearLogsDeclined ==
    /\ size_trimmed' = "no"
    /\ UNCHANGED <<line, entry, log_entries, filtered_entries, level_filter,
                   max_lines, settings, level_checkboxes, clock, hist>>
    /\ UNCHANGED connVars
    /\ UNCHANGED <<linkVars, fileVars>>

\* the window after MainWindow.new_session: with an empty store nothing
\* happens; else the user answers the "New Session" question with reply, and
\* on Yes clear_logs asks its own question, answered with clear_reply
NewSessionW(w, reply, clear_reply) ==
    IF w.log_entries # <<>> /\ reply /\ clear_reply
    THEN ClearLogsConfirmed(w)
    ELSE w

\* MainWindow.new_session; log_file_path = None follows clear_logs whatever
\* the second answer was
NewSession(reply, clear_reply) ==
    /\ Commit(NewSessionW(Win, reply, clear_reply), "clear_logs")
    /\ hist' = IF log_entries # <<>> /\ reply /\ clear_reply THEN <<>> ELSE hist
    /\ log_file_path' = IF log_entries # <<>> /\ reply
                        THEN NoPath ELSE log_file_path
    /\ UNCHANGED <<line, entry, clock, dialog, exported, csv, saved>>
    /\ UNCHANGED connVars
    /\ UNCHANGED linkVars

\* the path auto_save_logs makes up: auto_save_logs/serial_log_<now>.txt,
\* <now> taken as the number of entries constructed so far
NewPath == "serial_log_" \o ToString(clock)

\* MainWindow.auto_save_logs on the timer's timeout: with an empty store it
\* returns at once; else it opens log_file_path with mode 'w' and writes one
\* line for each entry of get_all_entries()
AutoSaveLogs ==
    /\ log_file_path' = IF log_entries # <<>> /\ log_file_path = NoPath
                        THEN NewPath ELSE log_file_path
    /\ size_trimmed' = "no"
    /\ UNCHANGED <<line, entry, log_entries, filtered_entries, level_filter,
                   max_lines, settings, level_checkboxes, clock, hist>>
    /\ saved' = IF log_entries # <<>>
                THEN [path |-> log_file_path', entries |-> log_entries]
                ELSE saved
    /\ UNCHANGED <<dialog, exported, csv>>
    /\ UNCHANGED connVars
    /\ UNCHANGED linkVars

SessionNext ==
    \/ ConnectSerial
    \/ \E data \in RxLines : OnDataReceived(data)
    \/ ClearLogs
    \/ ClearLogsDeclined
    \/ \E reply \in BOOLEAN : \E clear_reply \in BOOLEAN :
          NewSession(reply, clear_reply)
    \/ AutoSaveLogs

SessionSpec == Init /\ [][SessionNext]_vars

-----------------------------------------------------------------------------
(* LinkSpec: the reader thread of SerialWorker.read_data, one step for     *)
(* each use of the worker's fields, the signals it queues for the UI       *)
(* thread, and MainWindow.disconnect_serial, one step for each write of    *)
(* the worker's fields, as the two threads interleave.                     *)

\* what the device sends in one behaviour: a line ended by "\r\n", an empty
\* line and text without its newline; a blank line and a line ended by "\n"
Streams ==
    { <<"a", "\r", "\n", "\n", "b">>,
      <<" ", "\n", "a", "\n">> }

\* the UI thread in no handler
UiIdle == [at |-> "idle", by |-> "none"]

\* a queued signal
Signal(sig, arg) == [sig |-> sig, arg |-> arg]

\* str.rstrip('\r')
RECURSIVE RStripCR(_)
RStripCR(s) ==
    IF s # <<>> /\ s[Len(s)] = "\r"
    THEN RStripCR(SubSeq(s, 1, Len(s) - 1))
    ELSE s

\* index of the first "\n" of s, 0 if it has none
FirstNewline(s) ==
    IF \E i \in 1..Len(s) : s[i] = "\n"
    THEN CHOOSE i \in 1..Len(s) :
            /\ s[i] = "\n"
            /\ \A k \in 1..(i-1) : s[k] # "\n"
    ELSE 0

\* the emit under a direct connection: the slot on_data_received runs in the
\* emitting thread, nothing is posted
EmitDataReceivedDirect(w, q, ln) ==
    [win |-> OnDataReceivedW(w, ln, 0), events |-> q]

\* an emit that posts the call twice
EmitDataReceivedTwice(w, q, ln) ==
    [win |-> w,
     events |-> Append(Append(q, Signal("data_received", ln)),
                       Signal("data_received", ln))]

\* self.data_received.emit(ln) in the reader thread: the worker was moved to
\* worker_thread and the slot's object lives in the UI thread, so the
\* connection is queued: the window is not touched, the call is posted
EmitDataReceived(w, q, ln) ==
    [win |-> w, events |-> Append(q, Signal("data_received", ln))]

\* an except clause that only breaks: no connection_lost is emitted
ReadFailedSilently(q) == q

\* the except clause of read_data: connection_lost is emitted (queued), break
ReadFailed(q) == Append(q, Signal("connection_lost", <<>>))

\* self.serial_port after the except clause of read_data: none of its
\* statements touches the port
PortAfterExcept(port) == port

\* a use of self.serial_port.<attribute> raises: the attribute of None
\* (AttributeError), of a closed port (PortNotOpenError), of a port whose
\* device is gone (SerialException)
UseRaises == serial_port # "open" \/ fault

\* the variables a step of the reader thread leaves alone whatever it does
ReaderFrame ==
    /\ UNCHANGED <<line, entry, clock, hist>>
    /\ UNCHANGED <<connected, serial_worker, worker_thread, running>>
    /\ UNCHANGED <<wire, fault, ui, ui_raised, message_box, tx_log>>
    /\ UNCHANGED fileVars

\* worker_thread.started: read_data begins, buffer = ""
ReadDataBegins ==
    /\ pc = "started"
    /\ pc' = "cond"
    /\ buffer' = <<>>
    /\ got' = <<>>
    /\ handed' = <<>>
    /\ UNCHANGED <<rxbuf, events>>
    /\ UNCHANGED <<log_entries, filtered_entries, level_filter, max_lines,
                   settings, level_checkboxes, size_trimmed>>
    /\ UNCHANGED serial_port
    /\ ReaderFrame

\* "while self.running and self.serial_port"
LoopCondition ==
    /\ pc = "cond"
    /\ pc' = IF running /\ serial_port # "None" THEN "is_open" ELSE "done"
    /\ UNCHANGED <<buffer, rxbuf, events, got, handed>>
    /\ UNCHANGED <<log_entries, filtered_entries, level_filter, max_lines,
                   settings, level_checkboxes, size_trimmed>>
    /\ UNCHANGED serial_port
    /\ ReaderFrame

\* "and self.serial_port.is_open": of None it raises outside the try, and
\* read_data ends with no signal
LoopIsOpen ==
    /\ pc = "is_open"
    /\ pc' = IF serial_port = "open" THEN "in_waiting" ELSE "done"
    /\ UNCHANGED <<buffer, rxbuf, events, got, handed>>
    /\ UNCHANGED <<log_entries, filtered_entries, level_filter, max_lines,
                   settings, level_checkboxes, size_trimmed>>
    /\ UNCHANGED serial_port
    /\ ReaderFrame

\* "if self.serial_port.in_waiting > 0", else time.sleep(0.01)
PollInWaiting ==
    /\ pc = "in_waiting"
    /\ pc' = IF UseRaises THEN "except"
             ELSE IF Len(rxbuf) > 0 THEN "read" ELSE "cond"
    /\ UNCHANGED <<buffer, rxbuf, events, got, handed>>
    /\ UNCHANGED <<log_entries, filtered_entries, level_filter, max_lines,
                   settings, level_checkboxes, size_trimmed>>
    /\ UNCHANGED serial_port
    /\ ReaderFrame

\* "data = self.serial_port.read(self.serial_port.in_waiting)...; buffer += data"
ReadPort ==
    /\ pc = "read"
    /\ IF UseRaises
       THEN /\ pc' = "except"
            /\ UNCHANGED <<buffer, rxbuf, got>>
       ELSE /\ pc' = "split"
            /\ buffer' = buffer \o rxbuf
            /\ got' = got \o rxbuf
            /\ rxbuf' = <<>>
    /\ UNCHANGED <<events, handed>>
    /\ UNCHANGED <<log_entries, filtered_entries, level_filter, max_lines,
                   settings, level_checkboxes, size_trimmed>>
    /\ UNCHANGED serial_port
    /\ ReaderFrame

\* one turn of "while '\n' in buffer": split, rstrip('\r'), "if line:" emit
SplitLine ==
    /\ pc = "split"
    /\ IF FirstNewline(buffer) = 0
       THEN /\ pc' = "cond"
            /\ UNCHANGED <<buffer, events, handed>>
            /\ UNCHANGED <<log_entries, filtered_entries, level_filter,
                           max_lines, settings, level_checkboxes, size_trimmed>>
       ELSE LET n  == FirstNewline(buffer)
                ln == RStripCR(SubSeq(buffer, 1, n - 1))
                r  == EmitDataReceived(Win, events, ln)
            IN  /\ pc' = "split"
                /\ buffer' = SubSeq(buffer, n + 1, Len(buffer))
                /\ IF ln # <<>>
                   THEN /\ Commit(r.win, "on_data_received")
                        /\ events' = r.events
                        /\ handed' = Append(handed, ln)
                   ELSE /\ UNCHANGED <<events, handed>>
                        /\ UNCHANGED <<log_entries, filtered_entries,
                                       level_filter, max_lines, settings,
                                       level_checkboxes, size_trimmed>>
    /\ UNCHANGED <<rxbuf, got>>
    /\ UNCHANGED serial_port
    /\ ReaderFrame

\* "except Exception as e: self.connection_lost.emit(...); break"
ExceptClause ==
    /\ pc = "except"
    /\ pc' = "done"
    /\ events' = ReadFailed(events)
    /\ serial_port' = PortAfterExcept(serial_port)
    /\ UNCHANGED <<buffer, rxbuf, got, handed>>
    /\ UNCHANGED <<log_entries, filtered_entries, level_filter, max_lines,
                   settings, level_checkboxes, size_trimmed>>
    /\ ReaderFrame

\* a step of the reader thread
ReaderStep ==
    \/ ReadDataBegins
    \/ LoopCondition
    \/ LoopIsOpen
    \/ PollInWaiting
    \/ ReadPort
    \/ SplitLine
    \/ ExceptClause

\* the variables a step of the UI thread on the connection leaves alone
LinkUiFrame ==
    /\ UNCHANGED <<line, entry>>
    /\ UNCHANGED <<buffer, wire, events, got, handed, tx_log>>
    /\ UNCHANGED fileVars

\* the store as no step on the connection touches it
StoreFrame ==
    /\ size_trimmed' = "no"
    /\ UNCHANGED <<log_entries, filtered_entries, level_filter, max_lines,
                   settings, level_checkboxes, clock, hist>>

\* toggle_connection while not connected, the port opens:
\* MainWindow.connect_serial creates thread and worker, connects the signals,
\* SerialWorker.connect_serial opens the port and sets running, the thread is
\* started
LinkConnect ==
    /\ ui = UiIdle
    /\ ~connected
    /\ Len(events) <= MaxPending
    /\ worker_thread' = "thread"
    /\ serial_worker' = "worker"
    /\ serial_port' = "open"
    /\ running' = TRUE
    /\ pc' = "started"
    /\ connected' = TRUE
    /\ rxbuf' = <<>>
    /\ fault' = FALSE
    /\ ui_raised' = "no"
    /\ message_box' = "None"
    /\ UNCHANGED ui
    /\ StoreFrame
    /\ LinkUiFrame

\* toggle_connection while not connected, serial.Serial(...) raises:
\* SerialWorker.connect_serial emits connection_lost in the UI thread, so
\* on_connection_lost runs at once, inside the emit: disconnect_serial stops
\* the worker, waits for the thread that was never started, unsets
\* worker_thread and serial_worker, and the message box is shown.  Back in
\* connect_serial the else branch calls self.worker_thread.quit() on None.
ConnectFails ==
    /\ ui = UiIdle
    /\ ~connected
    /\ LET \* lines 754-755
           created == [worker_thread |-> "thread", serial_worker |-> "worker"]
           \* line 764: the emit runs on_connection_lost, whose
           \* disconnect_serial ends with lines 792-793
           lost == [created EXCEPT !.worker_thread = "None",
                                   !.serial_worker = "None"]
       IN  /\ running' = FALSE
           /\ serial_port' = "None"
           /\ connected' = FALSE
           /\ message_box' = "Connection Lost"
           \* line 772: self.worker_thread.quit()
           /\ ui_raised' = IF lost.worker_thread = "None"
                            THEN "AttributeError" ELSE "no"
           \* lines 774-775 when line 772 did not raise
           /\ worker_thread' = "None"
           /\ serial_worker' = "None"
    /\ UNCHANGED <<pc, rxbuf, fault, ui>>
    /\ StoreFrame
    /\ LinkUiFrame

\* where MainWindow.disconnect_serial begins: "if self.serial_worker:"
BeginDisconnect(by) ==
    [at |-> IF serial_worker = "worker" THEN "stop" ELSE "quit", by |-> by]

\* toggle_connection while connected: MainWindow.disconnect_serial begins
ToggleDisconnect ==
    /\ ui = UiIdle
    /\ connected
    /\ ui' = BeginDisconnect("toggle_connection")
    /\ ui_raised' = "no"
    /\ message_box' = "None"
    /\ UNCHANGED <<pc, rxbuf, fault>>
    /\ UNCHANGED connVars
    /\ StoreFrame
    /\ LinkUiFrame

\* a disconnect_serial that closes and unsets the port but leaves the stop
\* flag as it is
WorkerDisconnectKeepsRunning(at, wk) ==
    CASE at = "stop"  -> wk
      [] at = "close" -> IF wk.serial_port = "open"
                         THEN [wk EXCEPT !.serial_port = "closed"]
                         ELSE wk
      [] at = "unset" -> [wk EXCEPT !.serial_port = "None"]

\* SerialWorker.disconnect_serial, the worker's fields after its statement at:
\* "stop" is running = False, "close" is "if ...is_open: close()", "unset" is
\* serial_port = None
WorkerDisconnect(at, wk) ==
    CASE at = "stop"  -> [wk EXCEPT !.running = FALSE]
      [] at = "close" -> IF wk.serial_port = "open"
                         THEN [wk EXCEPT !.serial_port = "closed"]
                         ELSE wk
      [] at = "unset" -> [wk EXCEPT !.serial_port = "None"]

\* the statement of SerialWorker.disconnect_serial after the one at
AfterStatement(at, wk) ==
    CASE at = "stop"  -> "close"
      [] at = "close" -> IF wk.serial_port = "open" THEN "unset" ELSE "quit"
      [] at = "unset" -> "quit"

\* one statement of SerialWorker.disconnect_serial, run by the UI thread
DisconnectStep ==
    /\ ui.at \in {"stop", "close", "unset"}
    /\ LET wk == [running |-> running, serial_port |-> serial_port]
           nx == WorkerDisconnect(ui.at, wk)
       IN  /\ running' = nx.running
           /\ serial_port' = nx.serial_port
           /\ ui' = [ui EXCEPT !.at = AfterStatement(ui.at, wk)]
    /\ UNCHANGED <<connected, serial_worker, worker_thread>>
    /\ UNCHANGED <<pc, rxbuf, fault, ui_raised, message_box>>
    /\ StoreFrame
    /\ LinkUiFrame

\* a disconnect_serial that forgets "self.connected = False"
AfterWaitStillConnected(c) ==
    [connected |-> c, worker_thread |-> "None", serial_worker |-> "None"]

\* the window's fields after the last lines of MainWindow.disconnect_serial,
\* connected having been c
AfterWait(c) ==
    [connected |-> FALSE, worker_thread |-> "None", serial_worker |-> "None"]

\* the rest of MainWindow.disconnect_serial: worker_thread.quit() and wait(),
\* which returns when read_data has returned; connected = False, both
\* references unset; on_connection_lost then shows its message box
ThreadWait ==
    /\ ui.at = "quit"
    /\ worker_thread = "thread" => pc \in {"none", "done"}
    /\ LET w == AfterWait(connected)
       IN  /\ connected' = w.connected
           /\ worker_thread' = w.worker_thread
           /\ serial_worker' = w.serial_worker
    /\ message_box' = IF ui.by = "on_connection_lost"
                      THEN "Connection Lost" ELSE "None"
    /\ ui' = UiIdle
    /\ UNCHANGED <<running, serial_port>>
    /\ UNCHANGED <<pc, rxbuf, fault, ui_raised>>
    /\ StoreFrame
    /\ LinkUiFrame

\* the UI thread's event loop delivers a queued data_received:
\* MainWindow.on_data_received
DeliverData ==
    /\ ui = UiIdle
    /\ events # <<>>
    /\ Head(events).sig = "data_received"
    /\ events' = Tail(events)
    /\ clock' = clock + 1
    /\ hist' = Append(hist, LogEntry(Head(events).arg, clock + 1,
                                     NoneLevel, NoneStr))
    /\ Commit(OnDataReceivedW(Win, Head(events).arg, clock + 1),
              "on_data_received")
    /\ ui_raised' = "no"
    /\ message_box' = "None"
    /\ UNCHANGED <<line, entry>>
    /\ UNCHANGED connVars
    /\ UNCHANGED <<pc, buffer, rxbuf, wire, fault, ui, got, handed, tx_log>>
    /\ UNCHANGED fileVars

\* the UI thread's event loop delivers a queued connection_lost:
\* MainWindow.on_connection_lost begins disconnect_serial
DeliverLost ==
    /\ ui = UiIdle
    /\ events # <<>>
    /\ Head(events).sig = "connection_lost"
    /\ events' = Tail(events)
    /\ ui' = BeginDisconnect("on_connection_lost")
    /\ ui_raised' = "no"
    /\ message_box' = "None"
    /\ UNCHANGED <<line, entry>>
    /\ UNCHANGED connVars
    /\ UNCHANGED <<pc, buffer, rxbuf, wire, fault, got, handed, tx_log>>
    /\ UNCHANGED fileVars
    /\ StoreFrame

\* the device sends its next character to the open port
Arrive ==
    /\ serial_port = "open"
    /\ ~fault
    /\ wire # <<>>
    /\ rxbuf' = Append(rxbuf, Head(wire))
    /\ wire' = Tail(wire)
    /\ UNCHANGED <<line, entry>>
    /\ UNCHANGED connVars
    /\ UNCHANGED <<pc, buffer, fault, events, ui, ui_raised, message_box,
                   got, handed, tx_log>>
    /\ UNCHANGED fileVars
    /\ StoreFrame

\* the device is unplugged while the port is open
Unplug ==
    /\ serial_port = "open"
    /\ ~fault
    /\ fault' = TRUE
    /\ UNCHANGED <<line, entry>>
    /\ UNCHANGED connVars
    /\ UNCHANGED <<pc, buffer, rxbuf, wire, events, ui, ui_raised,
                   message_box, got, handed, tx_log>>
    /\ UNCHANGED fileVars
    /\ StoreFrame

\* the window and the connection as MainWindow.__init__ leaves them, the
\* device about to send one of the streams
LinkInit ==
    /\ line = <<>>
    /\ entry = NoEntry
    /\ log_entries = <<>>
    /\ filtered_entries = <<>>
    /\ level_filter = AllTrue
    /\ max_lines = DEFAULT_MAX_LINES
    /\ settings = DEFAULT_SETTINGS
    /\ level_checkboxes = AllTrue
    /\ connected = FALSE
    /\ serial_worker = "None"
    /\ worker_thread = "None"
    /\ running = FALSE
    /\ serial_port = "None"
    /\ clock = 0
    /\ hist = <<>>
    /\ size_trimmed = "no"
    /\ pc = "none"
    /\ buffer = <<>>
    /\ rxbuf = <<>>
    /\ wire \in Streams
    /\ fault = FALSE
    /\ events = <<>>
    /\ ui = UiIdle
    /\ ui_raised = "no"
    /\ message_box = "None"
    /\ got = <<>>
    /\ handed = <<>>
    /\ tx_log = <<>>
    /\ FilesIdle

\* a step of the UI thread inside disconnect_serial
UiStep == DisconnectStep \/ ThreadWait

\* the event loop of the UI thread delivers the oldest queued signal
Deliver == DeliverData \/ DeliverLost

LinkNext ==
    \/ LinkConnect
    \/ ConnectFails
    \/ ToggleDisconnect
    \/ DisconnectStep
    \/ ThreadWait
    \/ DeliverData
    \/ DeliverLost
    \/ ReadDataBegins
    \/ LoopCondition
    \/ LoopIsOpen
    \/ PollInWaiting
    \/ ReadPort
    \/ SplitLine
    \/ ExceptClause
    \/ Arrive
    \/ Unplug

LinkSpec == LinkInit /\ [][LinkNext]_vars

\* LinkSpec under the scheduling the threads have: the reader thread keeps
\* running, the UI thread finishes the handler it is in, and its event loop
\* delivers what is queued
LinkFairSpec ==
    /\ LinkSpec
    /\ WF_vars(ReaderStep)
    /\ WF_vars(UiStep)
    /\ WF_vars(Deliver)

-----------------------------------------------------------------------------
(* SendSpec: MainWindow.send_data with its write, which may raise, over    *)
(* the connection as Spec opens and closes it.                             *)

\* Config.LINE_ENDINGS, the values of 'CRLF' and 'None'
LineEndings == { <<"\r", "\n">>, <<>> }

\* one call of serial_port.write: what was written and whether it returned
WriteCall(bytes, ok) == [bytes |-> bytes, ok |-> ok]

\* a send_data that writes a second time when the first write raised
WorkerSendDataRetrying(port, data, line_ending, ok) ==
    IF port = "open"
    THEN [writes |-> IF ok THEN <<WriteCall(data \o line_ending, TRUE)>>
                     ELSE <<WriteCall(data \o line_ending, FALSE),
                            WriteCall(data \o line_ending, FALSE)>>,
          result |-> ok]
    ELSE [writes |-> <<>>, result |-> FALSE]

\* SerialWorker.send_data(data, line_ending) on a port whose write returns
\* (ok) or raises: the calls of write it makes and what it returns
WorkerSendData(port, data, line_ending, ok) ==
    IF port = "open"
    THEN [writes |-> <<WriteCall(data \o line_ending, ok)>>, result |-> ok]
    ELSE [writes |-> <<>>, result |-> FALSE]

\* does MainWindow.send_data get to call the worker:
\* "if self.connected and self.serial_worker:", "if data:"
SendAttempted(data) == connected /\ serial_worker = "worker" /\ data # <<>>

\* the window after MainWindow.send_data called the worker with result sent
SendDataW(w, data, sent, ts) ==
    IF sent THEN AddLogEntry(w, SentEntry(data, ts)) ELSE w

\* MainWindow.send_data with text data in the input field and line ending
\* line_ending selected; the write, if one is made, returns (ok) or raises
SendText(data, line_ending, ok) ==
    LET r == IF SendAttempted(data)
             THEN WorkerSendData(serial_port, data, line_ending, ok)
             ELSE [writes |-> <<>>, result |-> FALSE]
    IN  /\ r.result => clock < MaxEntries
        /\ tx_log' = r.writes
        /\ message_box' = IF SendAttempted(data) /\ ~r.result
                          THEN "Failed to send data" ELSE "None"
        /\ ui_raised' = "no"
        /\ clock' = IF r.result THEN clock + 1 ELSE clock
        /\ hist' = IF r.result
                   THEN Append(hist, SentEntry(data, clock + 1))
                   ELSE hist
        /\ Commit(SendDataW(Win, data, r.result, clock + 1), "send_data")
        /\ UNCHANGED <<line, entry>>
        /\ UNCHANGED connVars
        /\ UNCHANGED <<pc, buffer, rxbuf, wire, fault, events, ui, got, handed>>
        /\ UNCHANGED fileVars

\* the texts of the input field: empty, and one character
SendTexts == { <<>>, <<"w">> }

SendNext ==
    \/ ConnectSerial
    \/ DisconnectSerial
    \/ \E data \in RxLines : OnDataReceived(data)
    \/ \E data \in SendTexts : \E le \in LineEndings : \E ok \in BOOLEAN :
          SendText(data, le, ok)

SendSpec == Init /\ [][SendNext]_vars

-----------------------------------------------------------------------------
(* Vocabulary of the properties below.  None of it is used by the model.   *)

\* t is l without its leading and its trailing whitespace
IsTrimOf(t, l) ==
    \E a \in 0..Len(l) : \E b \in 0..(Len(l) - a) :
        /\ t = SubSeq(l, a + 1, Len(l) - b)
        /\ \A i \in 1..a : l[i] \in Whitespace
        /\ \A i \in (Len(l) - b + 1)..Len(l) : l[i] \in Whitespace
        /\ t # <<>> => t[1] \notin Whitespace /\ t[Len(t)] \notin Whitespace

\* the line l after trimming: l without its LeadingBlanks(l) first and its
\* TrailingBlanks(l) last characters
LeadingBlanks(l) ==
    Cardinality({ i \in 1..Len(l) : \A j \in 1..i : l[j] \in Whitespace })

TrailingBlanks(l) ==
    Cardinality({ i \in 1..Len(l) : \A j \in i..Len(l) : l[j] \in Whitespace })

Trimmed(l) ==
    IF LeadingBlanks(l) = Len(l) THEN <<>>
    ELSE SubSeq(l, LeadingBlanks(l) + 1, Len(l) - TrailingBlanks(l))

\* m is s without its leading run of whitespace, and nothing else removed
IsAfterBlanks(m, s) ==
    \E k \in 0..Len(s) :
        /\ \A i \in 1..k : s[i] \in Whitespace
        /\ k < Len(s) => s[k + 1] \notin Whitespace
        /\ m = SubSeq(s, k + 1, Len(s))

\* s starts with p
HasPrefix(s, p) == Len(s) >= Len(p) /\ SubSeq(s, 1, Len(p)) = p

\* the digits of the level markers
MarkerDigits == {"0", "1", "2", "3", "4"}

LevelMarker(d) == <<"[", d, "]">>
WmMarker == <<"*", "w", "m">>

StartsWithLevelMarker(t) == \E d \in MarkerDigits : HasPrefix(t, LevelMarker(d))

\* t starts with neither marker
NoMarker(t) == ~StartsWithLevelMarker(t) /\ ~HasPrefix(t, WmMarker)

\* the text of t after a three-character marker
AfterThree(t) == SubSeq(t, 4, Len(t))

\* ParseSpec: the LogEntry has been constructed
Constructed == entry # NoEntry

\* the seven tags
Vocabulary == {"0", "1", "2", "3", "4", "wm", "verbose"}

\* the ordinal of each tag
Ordinal ==
    ("0" :> 0) @@ ("1" :> 1) @@ ("2" :> 2) @@ ("3" :> 3) @@ ("4" :> 4) @@
    ("wm" :> 5) @@ ("verbose" :> 6)

\* m is a string, not None
IsStr(m) == \A j \in 1..Len(m) : m[j] # "None"

\* s is a contiguous suffix of t
IsSuffix(s, t) ==
    /\ Len(s) <= Len(t)
    /\ s = SubSeq(t, Len(t) - Len(s) + 1, Len(t))

\* the most recent n entries of s, all of s if it holds fewer
MostRecent(s, n) ==
    IF Len(s) <= n THEN s ELSE SubSeq(s, Len(s) - n + 1, Len(s))

\* view is the order-preserving subsequence of store that holds exactly the
\* entries whose tag's ordinal is enabled in filter
IsViewOf(view, store, filter) ==
    LET shown == { i \in 1..Len(store) : filter[Ordinal[store[i].level] + 1] }
    IN  /\ Len(view) = Cardinality(shown)
        /\ \A i \in shown :
              view[Cardinality({ j \in shown : j <= i })] = store[i]

\* the sum of len(raw_data) over store exceeds mb megabytes
OverCeiling(store, mb) == TotalSize(store) > mb * KB * KB

\* a step that constructs no entry, clears nothing and leaves the connection
\* alone: what every step named below but Reception is (stated first so that
\* the handlers are only tried on such steps)
Quiet == clock' = clock /\ hist' = hist /\ connected' = connected

\* a step in which the user changes the filter set: one checkbox, All, None
\* (each handler is tried only on the steps that leave the checkboxes as it
\* leaves them)
FilterChange ==
    /\ Quiet
    /\ \/ \E i \in ToggleBoxes :
            /\ level_checkboxes'[i] # level_checkboxes[i]
            /\ ToggleLevel(i)
       \/ level_checkboxes' = AllTrue /\ SelectAll
       \/ level_checkboxes' = AllFalse /\ SelectNone

\* a step in which the settings dialog is accepted
SettingsChange ==
    /\ Quiet
    /\ \E reset \in BOOLEAN :
          ShowSettings(reset, settings'.max_lines, settings'.log_file_size_mb)

\* a step in which a line is received
Reception ==
    /\ clock' = clock + 1
    /\ \E data \in RxLines : OnDataReceived(data)

-----------------------------------------------------------------------------
(* C1 *)

\* C1: a line that after trimming starts with "[d]", d a digit 0..4, gives a
\* LogEntry with level d, parsed = true and as message the text after "]"
\* with exactly its leading run of whitespace removed.
C1_LevelMarker ==
    Constructed =>
        LET t == Trimmed(line)
        IN  \A d \in MarkerDigits :
                HasPrefix(t, LevelMarker(d)) =>
                    /\ entry.level = d
                    /\ entry.parsed
                    /\ IsAfterBlanks(entry.message, AfterThree(t))

\* "[2] w" was classified: level "2", message "w"
C1_Witness ==
    /\ Constructed
    /\ line = <<"[", "2", "]", " ", "w">>
    /\ entry.level = "2"
    /\ entry.message = <<"w">>

-----------------------------------------------------------------------------
(* C2 *)

\* C2: with the line read as the trimmed line (raw_data), a line that does
\* not start with a level marker and starts with the case-sensitive "*wm"
\* gets level "wm", parsed = true and as message the rest without its leading
\* whitespace; a tag is given only to a line that starts with its marker, in
\* the marker's case (so not for a marker later in the line, not for "*WM");
\* a line that starts with a level marker is never given "wm".
C2_WmMarker ==
    Constructed =>
        LET t == Trimmed(line)
        IN  /\ (~StartsWithLevelMarker(t) /\ HasPrefix(t, WmMarker)) =>
                  /\ entry.level = "wm"
                  /\ entry.parsed
                  /\ IsAfterBlanks(entry.message, AfterThree(t))
            /\ entry.level = "wm" => HasPrefix(t, WmMarker)
            /\ \A d \in MarkerDigits :
                  entry.level = d => HasPrefix(t, LevelMarker(d))
            /\ StartsWithLevelMarker(t) => entry.level # "wm"

\* "*wm W" was classified: level "wm", message "W"
C2_Witness ==
    /\ Constructed
    /\ line = <<"*", "w", "m", " ", "W">>
    /\ entry.level = "wm"
    /\ entry.message = <<"W">>

-----------------------------------------------------------------------------
(* C3 *)

\* C3 as claimed: a line that matches neither marker gets level "verbose",
\* parsed = false and as message the input line verbatim, its leading and
\* trailing whitespace included.
C3_Verbatim ==
    (Constructed /\ NoMarker(Trimmed(line))) =>
        /\ entry.level = "verbose"
        /\ ~entry.parsed
        /\ entry.message = line

\* C3 as amended: a line that matches neither marker gets level "verbose",
\* parsed = false and as message the input line without its leading and
\* trailing whitespace, otherwise character for character (it is raw_data).
C3_CatchAllTrimmed ==
    (Constructed /\ NoMarker(Trimmed(line))) =>
        /\ entry.level = "verbose"
        /\ ~entry.parsed
        /\ IsTrimOf(entry.message, line)
        /\ entry.message = entry.raw_data

\* " w 5 " was classified: level "verbose", message "w 5"
C3_Witness ==
    /\ Constructed
    /\ line = <<" ", "w", " ", "5", " ">>
    /\ entry.level = "verbose"
    /\ entry.message = <<"w", " ", "5">>

-----------------------------------------------------------------------------
(* C4 *)

\* C4: every entry of the store, from a received line or from a sent-data
\* echo, has one of the seven tags as level and a string as message.
C4_Vocabulary ==
    \A i \in 1..Len(log_entries) :
        /\ log_entries[i].level \in Vocabulary
        /\ log_entries[i].message # NoneStr
        /\ IsStr(log_entries[i].message)

\* the store holds a received line with a marker and a sent-data echo
C4_Witness ==
    /\ \E i \in 1..Len(log_entries) : log_entries[i].parsed
    /\ \E i \in 1..Len(log_entries) :
          HasPrefix(log_entries[i].raw_data, <<">", ">">>)

-----------------------------------------------------------------------------
(* C5 *)

\* C5: after every add_log_entry (a received line or a sent-data echo) the
\* store holds at most max_lines entries, and what the append leaves is the
\* most recent max_lines entries of the store with the new entry appended
\* (of which the size check of on_data_received may keep a suffix).
C5_CountTrim ==
    [][clock' = clock + 1 =>
        LET kept == MostRecent(Append(log_entries, hist'[Len(hist')]), max_lines')
        IN  /\ Len(log_entries') <= max_lines'
            /\ IF size_trimmed' = "no"
               THEN log_entries' = kept
               ELSE IsSuffix(log_entries', kept)]_vars

\* the settings lowered max_lines and an append has pushed the store over
\* it; the size check has cut nothing since the last clear (everything
\* appended since is under the lowest ceiling), so only the count trim
\* removed the missing entries
C5_Witness ==
    /\ max_lines = MAX_LINES_MIN
    /\ Len(log_entries) = max_lines
    /\ Len(hist) > max_lines
    /\ ~OverCeiling(hist, LOG_FILE_SIZE_MIN)
    /\ IsSuffix(log_entries, hist)

-----------------------------------------------------------------------------
(* C6 *)

\* C6: the store is a contiguous suffix of the sequence of entries appended
\* since the last clear, each entry as it was appended.
C6_Suffix == IsSuffix(log_entries, hist)

\* one handler ran both trims: the store is two or more entries short of
\* what was appended
C6_Witness ==
    /\ size_trimmed = "on_data_received"
    /\ log_entries # <<>>
    /\ Len(hist) >= Len(log_entries) + 2

-----------------------------------------------------------------------------
(* C7 *)

\* C7: the view apply_filters builds is the order-preserving subsequence of
\* the store of the entries whose tag's ordinal ("0".."4" -> 0..4, "wm" -> 5,
\* "verbose" -> 6) is enabled; all enabled gives the store, none the empty view.
C7_FilterView ==
    /\ IsViewOf(filtered_entries, log_entries, level_filter)
    /\ (\A i \in 1..NUM_LEVELS : level_filter[i]) =>
            filtered_entries = log_entries
    /\ (\A i \in 1..NUM_LEVELS : ~level_filter[i]) =>
            filtered_entries = <<>>

\* the store holds a wm line and then a line without marker; wm is disabled
\* and the view shows the other line
C7_Witness ==
    /\ Len(log_entries) = 2
    /\ log_entries[1].level = "wm"
    /\ log_entries[2].level = "verbose"
    /\ ~level_filter[6]
    /\ filtered_entries = <<log_entries[2]>>

-----------------------------------------------------------------------------
(* C8 *)

\* C8: after every handler the view is the filter of the store as it is by
\* the filter set as it is.
C8_ViewFresh == IsViewOf(filtered_entries, log_entries, level_filter)

\* a size trim has just cut the store and the view hides some of what is left
C8_Witness ==
    /\ size_trimmed # "no"
    /\ filtered_entries # <<>>
    /\ filtered_entries # log_entries

-----------------------------------------------------------------------------
(* C9 *)

\* the size check, run on the store mid, leaves its most recent TRIM_KEEP
\* entries if mid is over the ceiling and holds more than TRIM_KEEP, else mid
SizeChecked(mid) ==
    log_entries' =
        IF OverCeiling(mid, settings'.log_file_size_mb) /\ Len(mid) > TRIM_KEEP
        THEN SubSeq(mid, Len(mid) - TRIM_KEEP + 1, Len(mid))
        ELSE mid

\* C9: whenever update_statistics runs (after add_log_entry in
\* on_data_received, in a filter change, in a settings change, after a
\* clear) the store is cut to its most recent 1000 entries if and only if
\* the sum of len(raw_data) exceeds log_file_size_mb * 1024 * 1024 and the
\* store holds more than 1000 entries; otherwise it is left as it is.
\* Each implication "handler => outcome" is written in the contrapositive:
\* a step with another outcome is no step of the handler.
C9_SizeCheck ==
    [][/\ clock' = clock + 1 =>
            (~SizeChecked(MostRecent(Append(log_entries, hist'[Len(hist')]),
                                     max_lines))
                => ~Reception)
       /\ ~SizeChecked(log_entries) => ~(FilterChange \/ SettingsChange)
       /\ ~SizeChecked(<<>>) => ~ClearLogs]_vars

\* the size check of on_data_received has cut the store to TRIM_KEEP entries
C9_Witness ==
    /\ size_trimmed = "on_data_received"
    /\ Len(log_entries) = TRIM_KEEP

-----------------------------------------------------------------------------
(* C10 *)

\* what C10 as amended allows a filter change to do: max_lines and the size
\* ceiling stay, and the store is as it was unless it is over the size
\* ceiling and holds more than TRIM_KEEP entries, when its most recent
\* TRIM_KEEP are left
StoreFramed ==
    /\ max_lines' = max_lines
    /\ settings'.max_lines = settings.max_lines
    /\ settings'.log_file_size_mb = settings.log_file_size_mb
    /\ IF OverCeiling(log_entries, settings.log_file_size_mb)
          /\ Len(log_entries) > TRIM_KEEP
       THEN log_entries' = MostRecent(log_entries, TRIM_KEEP)
       ELSE log_entries' = log_entries

\* C10 as claimed: a change of the filter set leaves the store's sequence of
\* entries as it was (in the contrapositive: a step that alters the store is
\* no filter change).
C10_StoreUntouched ==
    [][log_entries' # log_entries => ~FilterChange]_vars

\* C10 as amended: a change of the filter set leaves max_lines and the size
\* ceiling as they were and alters no entry; the store is as it was, except
\* that the size check update_level_filter runs cuts a store that is over
\* the size ceiling and holds more than 1000 entries to its most recent 1000
\* (in the contrapositive: a step that does otherwise is no filter change).
C10_FilterFrame ==
    [][~StoreFramed => ~FilterChange]_vars

\* a filter change has cut the store
C10_Witness == size_trimmed = "update_level_filter"

-----------------------------------------------------------------------------
(* ExportSpec: the export dialog over the stores the receptions build and  *)
(* the filter sets of the main window.                                     *)

\* list(Config.LOG_LEVELS.keys())
LevelKeys == <<"0", "1", "2", "3", "4", "wm", "verbose">>

\* an export that is handed the view instead of the store
GetFilteredEntries(w) == w.filtered_entries

\* LogDisplayWidget.get_all_entries: a copy of the whole store
GetAllEntries(w) == w.log_entries

\* selected_levels of ExportDialog.get_filtered_entries
SelectedLevels(checkboxes) ==
    { LevelKeys[i] : i \in { k \in 1..Len(checkboxes) :
                                checkboxes[k] /\ k <= Len(LevelKeys) } }

\* ExportDialog.get_filtered_entries
DialogFilteredEntries(d) ==
    SelectSeq(d.log_entries,
              LAMBDA e : e.level \in SelectedLevels(d.level_checkboxes))

\* ExportDialog(log_entries): setup_ui checks every level checkbox
ExportDialog(entries) ==
    [log_entries |-> entries, level_checkboxes |-> AllTrue, open |-> TRUE,
     result |-> "none"]

\* MainWindow.export_logs: the dialog is built and exec() shows it, modal
OpenExport ==
    /\ ~dialog.open
    /\ dialog' = ExportDialog(GetAllEntries(Win))
    /\ size_trimmed' = "no"
    /\ UNCHANGED <<log_file_path, exported, csv, saved>>
    /\ UNCHANGED <<line, entry, log_entries, filtered_entries, level_filter,
                   max_lines, settings, level_checkboxes, clock, hist>>
    /\ UNCHANGED connVars
    /\ UNCHANGED linkVars

\* what a step in the dialog leaves alone
DialogFrame ==
    /\ size_trimmed' = "no"
    /\ UNCHANGED <<log_file_path, csv, saved>>
    /\ UNCHANGED <<line, entry, log_entries, filtered_entries, level_filter,
                   max_lines, settings, level_checkboxes, clock, hist>>
    /\ UNCHANGED connVars
    /\ UNCHANGED linkVars

\* the user clicks level checkbox i of the dialog
DialogToggleLevel(i) ==
    /\ dialog.open
    /\ dialog' = [dialog EXCEPT !.level_checkboxes[i] = ~@]
    /\ UNCHANGED exported
    /\ DialogFrame

\* ExportDialog.select_all_levels
DialogSelectAll ==
    /\ dialog.open
    /\ dialog' = [dialog EXCEPT !.level_checkboxes = AllTrue]
    /\ UNCHANGED exported
    /\ DialogFrame

\* ExportDialog.select_no_levels
DialogSelectNone ==
    /\ dialog.open
    /\ dialog' = [dialog EXCEPT !.level_checkboxes = AllFalse]
    /\ UNCHANGED exported
    /\ DialogFrame

\* ExportDialog.export_logs, a file name was chosen and the file written:
\* one line per entry of get_filtered_entries(), then accept()
ExportWrite ==
    /\ dialog.open
    /\ exported' = DialogFilteredEntries(dialog)
    /\ dialog' = [dialog EXCEPT !.open = FALSE, !.result = "accepted"]
    /\ DialogFrame

\* the Cancel button: reject()
ExportCancel ==
    /\ dialog.open
    /\ dialog' = [dialog EXCEPT !.open = FALSE, !.result = "rejected"]
    /\ UNCHANGED exported
    /\ DialogFrame

\* the main window takes no input while the modal dialog is open; queued
\* data_received calls are still delivered by the dialog's event loop
ExportNext ==
    \/ ~dialog.open /\ ConnectSerial
    \/ \E data \in RxLines : OnDataReceived(data)
    \/ \E i \in ToggleBoxes : ~dialog.open /\ ToggleLevel(i)
    \/ OpenExport
    \/ \E i \in ToggleBoxes : DialogToggleLevel(i)
    \/ DialogSelectAll
    \/ DialogSelectNone
    \/ ExportWrite
    \/ ExportCancel

ExportSpec == Init /\ [][ExportNext]_vars

-----------------------------------------------------------------------------
(* CsvSpec: ExportDialog.format_entry with the format "CSV", applied to    *)
(* one entry.  A text is a sequence of characters; a name of               *)
(* Config.LOG_LEVELS, a column title and a formatted timestamp hold        *)
(* neither '"' nor ',' and each stand as one element.                      *)

\* longest message CsvSpec formats
MaxCsvLen == 3

\* the characters of the messages: the quote, the comma, any other
CsvAlphabet == {"\"", ",", "w"}

\* the lines received: a message with no marker, the same behind "[2]"
CsvLines ==
    SeqsUpTo(CsvAlphabet, MaxCsvLen)
        \cup { <<"[", "2", "]">> \o m : m \in SeqsUpTo(CsvAlphabet, MaxCsvLen) }

\* LogEntry.get_level_name
GetLevelName(level) ==
    CASE level = "0" -> "ERROR"
      [] level = "1" -> "WARN"
      [] level = "2" -> "INFO"
      [] level = "3" -> "DEBUG"
      [] level = "4" -> "VERBOSE"
      [] level = "wm" -> "WIFIMANAGER"
      [] level = "verbose" -> "GENERIC"
      [] OTHER -> "UNKNOWN"

\* entry.timestamp.strftime('%Y-%m-%d %H:%M:%S.%f')[:-3], the time being the
\* number of the entry
Strftime(timestamp) == <<"T" \o ToString(timestamp)>>

\* a format_entry that leaves the message as it is
MessageUnescaped(message) == message

\* entry.message.replace('"', '""')
RECURSIVE EscapeQuotes(_)
EscapeQuotes(message) ==
    IF message = <<>> THEN <<>>
    ELSE (IF Head(message) = "\"" THEN <<"\"", "\"">> ELSE <<Head(message)>>)
            \o EscapeQuotes(Tail(message))

\* f'"{field}"'
InQuotes(field) == <<"\"">> \o field \o <<"\"">>

\* ExportDialog.format_entry, the branch of "CSV"
FormatEntryCsv(e, include_timestamps) ==
    LET timestamp == IF include_timestamps THEN Strftime(e.timestamp) ELSE <<>>
        level     == <<GetLevelName(e.level)>>
        message   == EscapeQuotes(e.message)
    IN  IF include_timestamps
        THEN InQuotes(timestamp) \o <<",">> \o InQuotes(level) \o <<",">>
                \o InQuotes(message)
        ELSE InQuotes(level) \o <<",">> \o InQuotes(message)

\* the header ExportDialog.export_logs writes before the records
CsvHeader(include_timestamps) ==
    IF include_timestamps
    THEN <<"Timestamp", ",", "Level", ",", "Message">>
    ELSE <<"Level", ",", "Message">>

\* one entry is about to be constructed from a line
CsvInit ==
    /\ line \in CsvLines
    /\ entry = NoEntry
    /\ IdleWindow

\* the export formats the entry, the timestamps box checked or not
FormatCsv(include_timestamps) ==
    /\ entry # NoEntry
    /\ ~csv.made
    /\ csv' = [header |-> CsvHeader(include_timestamps),
               row |-> FormatEntryCsv(entry, include_timestamps),
               include_timestamps |-> include_timestamps,
               made |-> TRUE]
    /\ UNCHANGED <<log_file_path, dialog, exported, saved>>
    /\ UNCHANGED <<line, entry>>
    /\ UNCHANGED storeVars
    /\ UNCHANGED connVars
    /\ UNCHANGED linkVars

CsvNext ==
    \/ Construct
    \/ \E include_timestamps \in BOOLEAN : FormatCsv(include_timestamps)

CsvSpec == CsvInit /\ [][CsvNext]_vars

-----------------------------------------------------------------------------
(* C11 *)

\* a step of new_session in which the user answers the "New Session"
\* question with Yes
NewSessionConfirmed == \E clear_reply \in BOOLEAN : NewSession(TRUE, clear_reply)

\* C11: when the user confirms the new-session prompt on a non-empty store,
\* the store and the view are empty when new_session returns; when the user
\* confirms the clear-logs prompt both are empty; when the user declines it
\* both are as they were.
C11_SessionCleared ==
    [][/\ (log_entries # <<>> /\ NewSessionConfirmed) =>
            (log_entries' = <<>> /\ filtered_entries' = <<>>)
       /\ ClearLogs => (log_entries' = <<>> /\ filtered_entries' = <<>>)
       /\ ClearLogsDeclined =>
            (log_entries' = log_entries /\ filtered_entries' = filtered_entries)
      ]_vars

-----------------------------------------------------------------------------
(* C12 *)

\* the Disconnected state: no handler in progress, connected = false, worker
\* and thread unset, no open port
Disconnected ==
    /\ ui = UiIdle
    /\ ~connected
    /\ serial_worker = "None"
    /\ worker_thread = "None"
    /\ serial_port # "open"

\* a use of the port has just raised inside read_data's try while the window
\* is connected
ReadRaised == pc = "except" /\ connected

\* C12: if a read on the serial link fails while connected, the reader loop
\* stops, and with the connection_lost it queued the session reaches the
\* Disconnected state with no action of the user.
C12_LostDisconnects ==
    /\ ReadRaised ~> (pc = "done")
    /\ ReadRaised ~> Disconnected

\* the device was unplugged, the reader's connection_lost made the UI thread
\* disconnect and show "Connection Lost"
C12_Witness ==
    /\ fault
    /\ message_box = "Connection Lost"
    /\ pc = "done"
    /\ Disconnected

-----------------------------------------------------------------------------
(* C13 *)

\* C13: if opening the port fails during MainWindow.connect_serial, the
\* attempt completes without raising (no method is called on a worker_thread
\* or serial_worker that was already unset) and ends with connected = false
\* and worker_thread and serial_worker unset.
C13_FailedConnectCompletes ==
    [][ConnectFails =>
        /\ ui_raised' = "no"
        /\ ~connected'
        /\ worker_thread' = "None"
        /\ serial_worker' = "None"]_vars

-----------------------------------------------------------------------------
(* C14 *)

\* a step of send_data with a non-empty text in which no write returned:
\* the write raised, or there was no open port to write to
SendFailed ==
    \E data \in SendTexts \ {<<>>} : \E le \in LineEndings :
        SendText(data, le, FALSE)

\* what C14 says stays as it was: the store and the connection
SendLeftAlone ==
    /\ log_entries' = log_entries
    /\ filtered_entries' = filtered_entries
    /\ UNCHANGED connVars

\* C14 as claimed: when the write fails or no open port exists, send_data
\* reports the failure and makes exactly one write attempt; no entry is
\* appended and the connection state stays.
C14_FailureReported ==
    [][SendFailed =>
        /\ message_box' = "Failed to send data"
        /\ Len(tx_log') = 1
        /\ SendLeftAlone]_vars

\* C14 as amended: when the write raises, send_data reports the failure
\* after exactly one write attempt; when no open port exists (the window is
\* not connected) it makes no write attempt and reports nothing; in both
\* cases no entry is appended and the connection state stays.
C14_WriteOnce ==
    [][SendFailed =>
        /\ IF serial_port = "open"
           THEN /\ message_box' = "Failed to send data"
                /\ Len(tx_log') = 1
                /\ ~tx_log'[1].ok
           ELSE /\ message_box' = "None"
                /\ tx_log' = <<>>
        /\ SendLeftAlone]_vars

\* a write has raised, with entries in the store: the failure was reported
C14_Witness ==
    /\ message_box = "Failed to send data"
    /\ Len(tx_log) = 1
    /\ ~tx_log[1].ok
    /\ connected
    /\ log_entries # <<>>

-----------------------------------------------------------------------------
(* C15 *)

\* C15: in every interleaving of the reader thread and the UI thread, the
\* reader thread leaves log_entries and filtered_entries as they are, a line
\* it hands over is a data_received signal queued for the UI thread, and the
\* store changes only in the UI thread's on_data_received.
C15_StoreOnUiThread ==
    [][/\ ReaderStep =>
            /\ log_entries' = log_entries
            /\ filtered_entries' = filtered_entries
            /\ Len(handed') > Len(handed) =>
                  events' = Append(events,
                                   Signal("data_received", handed'[Len(handed')]))
       /\ (log_entries' # log_entries \/ filtered_entries' # filtered_entries)
            => DeliverData]_vars

\* the reader is in its loop with a line queued while the store already
\* holds an entry the UI thread appended
C15_Witness ==
    /\ pc \in {"cond", "is_open", "in_waiting", "read", "split"}
    /\ log_entries # <<>>
    /\ \E i \in 1..Len(events) : events[i].sig = "data_received"

-----------------------------------------------------------------------------
(* C16 *)

\* a step in which close() is called on the port
PortClosed == serial_port' = "closed" /\ serial_port # "closed"

\* C16 as claimed: whenever the reader thread signals connection loss it has
\* already released the transport handle, and the port is closed at most once
\* per connection (close() is called on an open port only, and only a new
\* connect opens a port).
C16_ReleasedBeforeSignal ==
    [][/\ ExceptClause => serial_port # "open"
       /\ PortClosed => serial_port = "open"
       /\ (serial_port' = "open" /\ serial_port # "open") => LinkConnect]_vars

-----------------------------------------------------------------------------
(* C17 *)

\* the reader has checked self.serial_port and is about to use it: the rest
\* of the loop condition, in_waiting or read
BetweenCheckAndUse == pc \in {"is_open", "in_waiting", "read"}

\* C17 as claimed: while the reader is between its check of serial_port and
\* its use of it, no step closes the port or sets serial_port to None.
C17_ReaderOwnsPort ==
    [][BetweenCheckAndUse => serial_port' = serial_port]_vars

-----------------------------------------------------------------------------
(* C18 *)

\* MainWindow.disconnect_serial is running on the user's request
UserDisconnecting == ui.by = "toggle_connection" /\ ui.at # "idle"

\* disconnect_serial has returned: the flag is down, the reader has left
\* read_data, the window is disconnected
DisconnectReturned ==
    /\ ui = UiIdle
    /\ ~running
    /\ pc \in {"none", "done"}
    /\ ~connected
    /\ worker_thread = "None"
    /\ serial_worker = "None"

\* C18: after the user disconnects, the stop flag is set, the reader loop
\* starts no further iteration once it evaluates its condition with the flag
\* down (so it exits after at most the iteration in progress), the wait on
\* the worker thread returns only when read_data has returned, and under fair
\* scheduling the disconnect always terminates with connected = false.
C18_DisconnectTerminates ==
    /\ UserDisconnecting ~> DisconnectReturned
    /\ [][(~running /\ pc = "cond" /\ pc' # "cond") => pc' = "done"]_vars
    /\ [][(UserDisconnecting /\ ui' = UiIdle) =>
            (~running /\ pc \in {"none", "done"} /\ ~connected')]_vars

\* the user disconnected a healthy connection while the reader was in its
\* loop: the flag is down, the reader has left the loop with no failure
\* signalled, and wait() is about to return
C18_Witness ==
    /\ ui = [at |-> "quit", by |-> "toggle_connection"]
    /\ pc = "done"
    /\ ~running
    /\ ~fault
    /\ connected
    /\ \A i \in 1..Len(events) : events[i].sig # "connection_lost"

-----------------------------------------------------------------------------
(* C19 *)

\* the newline-terminated lines of s, newline and trailing "\r" removed
RECURSIVE CompleteLines(_)
CompleteLines(s) ==
    IF FirstNewline(s) = 0
    THEN <<>>
    ELSE <<RStripCR(SubSeq(s, 1, FirstNewline(s) - 1))>>
            \o CompleteLines(SubSeq(s, FirstNewline(s) + 1, Len(s)))

\* the text of s after its last newline
RECURSIVE Unterminated(_)
Unterminated(s) ==
    IF FirstNewline(s) = 0
    THEN s
    ELSE Unterminated(SubSeq(s, FirstNewline(s) + 1, Len(s)))

\* the lines of ls that are not empty
NonEmptyLines(ls) == SelectSeq(ls, LAMBDA l : l # <<>>)

\* a step that takes a data_received call from the head of the queue
DataDelivered ==
    /\ events # <<>>
    /\ Head(events).sig = "data_received"
    /\ events' = Tail(events)

\* the queue is first in, first out; a line is posted once when it is handed
\* over; a delivered line appends exactly one entry, made of that line, to
\* the store (which may then evict from its front)
HandOverOnceInOrder ==
    [][/\ events' # events =>
            \/ events # <<>> /\ events' = Tail(events)
            \/ /\ Len(events') = Len(events) + 1
               /\ SubSeq(events', 1, Len(events)) = events
       /\ Len(handed') > Len(handed) =>
            /\ Len(handed') = Len(handed) + 1
            /\ events' = Append(events,
                                Signal("data_received", handed'[Len(handed')]))
       /\ DataDelivered =>
            LET e == LogEntry(Head(events).arg, clock', NoneLevel, NoneStr)
            IN  \E k \in 0..Len(log_entries) :
                   log_entries' = SubSeq(Append(log_entries, e), k + 1,
                                         Len(log_entries) + 1)]_vars

\* C19 as claimed: every newline-terminated line read since read_data began,
\* the empty ones included, has been handed over exactly once and in arrival
\* order or is still in the buffer; text after the last newline is held back
\* in the buffer; each line delivered produces exactly one entry.
C19_EveryLineHandedOver ==
    /\ [](/\ handed \o CompleteLines(buffer) = CompleteLines(got)
          /\ Unterminated(buffer) = Unterminated(got))
    /\ HandOverOnceInOrder

\* C19 as amended: the same for the lines that are not empty once newline and
\* trailing "\r" are removed; an empty line is dropped: it is not handed over
\* and produces no entry.
C19_NonEmptyLinesHandedOver ==
    /\ [](/\ handed \o NonEmptyLines(CompleteLines(buffer))
                = NonEmptyLines(CompleteLines(got))
          /\ \A i \in 1..Len(handed) : handed[i] # <<>>
          /\ \A i \in 1..Len(events) :
                events[i].sig = "data_received" => events[i].arg # <<>>
          /\ Unterminated(buffer) = Unterminated(got))
    /\ HandOverOnceInOrder

\* the reader has split what it read: one line was handed over and has
\* produced an entry, an empty line was dropped, unterminated text is held
\* back
C19_Witness ==
    /\ pc = "cond"
    /\ Len(handed) = 1
    /\ Len(CompleteLines(got)) = 2
    /\ buffer # <<>>
    /\ events = <<>>
    /\ Len(log_entries) = 1

-----------------------------------------------------------------------------
(* C20 *)

\* a is b with some of its elements left out
RECURSIVE IsSubsequence(_, _)
IsSubsequence(a, b) ==
    IF a = <<>> THEN TRUE
    ELSE IF b = <<>> THEN FALSE
    ELSE IF Head(a) = Head(b) THEN IsSubsequence(Tail(a), Tail(b))
    ELSE IsSubsequence(a, Tail(b))

\* a step in which an export writes its file
ExportWritten == dialog.open /\ dialog'.result = "accepted"

\* C20 as claimed: every entry written by an export is an entry of the
\* current filtered view, in view order.
C20_ExportsFilteredView ==
    [][ExportWritten => IsSubsequence(exported', filtered_entries)]_vars

\* C20 as amended: the export dialog is given the whole store as it is when
\* the dialog opens, with every level selected; it keeps that copy while it
\* is open; an export writes, in store order, exactly the entries of that
\* copy whose level is selected in the dialog, whatever the main window's
\* filter set hides.
C20_ExportsStoreByDialogLevels ==
    [][/\ (~dialog.open /\ dialog'.open) =>
            /\ dialog'.log_entries = log_entries
            /\ dialog'.level_checkboxes = AllTrue
       /\ (dialog.open /\ dialog'.open) =>
            dialog'.log_entries = dialog.log_entries
       /\ ExportWritten =>
            /\ IsSubsequence(exported', dialog.log_entries)
            /\ \A i \in 1..Len(dialog.log_entries) :
                  LET e == dialog.log_entries[i]
                      n == Cardinality({ k \in 1..Len(exported') :
                                            exported'[k] = e })
                      m == Cardinality({ k \in 1..Len(dialog.log_entries) :
                                            dialog.log_entries[k] = e })
                  IN  n = IF \E k \in 1..NUM_LEVELS :
                                /\ dialog.level_checkboxes[k]
                                /\ LevelKeys[k] = e.level
                          THEN m ELSE 0]_vars

\* an export has written an entry the main window's view hides and left out
\* an entry whose level was deselected in the dialog
C20_Witness ==
    /\ dialog.result = "accepted"
    /\ exported # <<>>
    /\ Len(exported) < Len(dialog.log_entries)
    /\ \E i \in 1..Len(exported) :
          \A k \in 1..Len(filtered_entries) : filtered_entries[k] # exported[i]
    /\ log_entries = dialog.log_entries

-----------------------------------------------------------------------------
(* C21 *)

\* a CSV reader's state after the characters s[i..] of a record, read from
\* state st with the field cur begun and the fields done: a quote opens a
\* quoted field, a doubled quote inside one is one quote, a comma outside
\* quotes ends a field
RECURSIVE CsvRead(_, _, _, _, _)
CsvRead(s, i, st, cur, done) ==
    IF i > Len(s) THEN Append(done, cur)
    ELSE LET ch == s[i] IN
         CASE st = "start" /\ ch = "\"" -> CsvRead(s, i + 1, "quoted", cur, done)
           [] st = "quoted" /\ ch = "\"" -> CsvRead(s, i + 1, "quote", cur, done)
           [] st = "quoted" /\ ch # "\"" ->
                CsvRead(s, i + 1, "quoted", Append(cur, ch), done)
           [] st = "quote" /\ ch = "\"" ->
                CsvRead(s, i + 1, "quoted", Append(cur, ch), done)
           [] st \in {"start", "plain", "quote"} /\ ch = "," ->
                CsvRead(s, i + 1, "start", <<>>, Append(done, cur))
           [] OTHER -> CsvRead(s, i + 1, "plain", Append(cur, ch), done)

\* the fields a CSV reader returns for the record s
CsvFields(s) == CsvRead(s, 1, "start", <<>>, <<>>)

\* the number of '"' in s
RECURSIVE CountQuotes(_)
CountQuotes(s) ==
    IF s = <<>> THEN 0
    ELSE (IF Head(s) = "\"" THEN 1 ELSE 0) + CountQuotes(Tail(s))

\* C21: the CSV record of an entry has every field enclosed in double quotes
\* and every '"' of the message doubled; reading the record back gives the
\* level name and the original message (and the timestamp first, when
\* timestamps are included); the header has as many columns as the record.
C21_CsvRoundTrip ==
    csv.made =>
        LET fields == CsvFields(csv.row)
            n      == Len(fields)
        IN  /\ n = Len(CsvFields(csv.header))
            /\ n = IF csv.include_timestamps THEN 3 ELSE 2
            /\ fields[n] = entry.message
            /\ fields[n - 1] = <<GetLevelName(entry.level)>>
            /\ csv.include_timestamps => fields[1] = Strftime(entry.timestamp)
            /\ csv.row[1] = "\"" /\ csv.row[Len(csv.row)] = "\""
            /\ CountQuotes(csv.row) = 2 * n + 2 * CountQuotes(entry.message)

\* a record was made, with its timestamp, of a message that holds a quote
\* and a comma
C21_Witness ==
    /\ csv.made
    /\ csv.include_timestamps
    /\ \E i \in 1..Len(entry.message) : entry.message[i] = "\""
    /\ \E i \in 1..Len(entry.message) : entry.message[i] = ","

-----------------------------------------------------------------------------
(* C22 *)

\* C22 as claimed: an auto-save that writes a file writes the whole current
\* store to log_file_path, which is the path already chosen if one was; a
\* chosen path is given up only in a step that leaves the store cleared.
C22_OneFilePerSession ==
    [][/\ saved' # saved =>
            /\ saved'.entries = log_entries
            /\ saved'.path = log_file_path'
            /\ log_file_path # NoPath => saved'.path = log_file_path
       /\ (log_file_path # NoPath /\ log_file_path' # log_file_path) =>
            log_entries' = <<>>]_vars

-----------------------------------------------------------------------------
(* C23 *)

\* C23 as claimed: from startup on, the filter set of the view is the one in
\* the settings and the one the seven checkboxes show, and the cap of the
\* store is the max_lines of the settings.
C23_SettingsInEffect ==
    /\ level_filter = settings.log_level_filter
    /\ level_filter = level_checkboxes
    /\ max_lines = settings.max_lines

-----------------------------------------------------------------------------
(* C24 *)

\* C24 as claimed: a send of non-empty text data while connected whose write
\* returns appends exactly one entry to the store, with raw text ">> data"
\* and level "2".
C24_SentEntryIsInfo ==
    [][\A data \in SendTexts \ {<<>>} : \A line_ending \in LineEndings :
          (/\ SendAttempted(data)
           /\ serial_port = "open"
           /\ SendText(data, line_ending, TRUE))
          => LET e == log_entries'[Len(log_entries')]
             IN  /\ e.raw_data = <<">", ">", " ">> \o data
                 /\ e.level = "2"
                 /\ \E k \in 0..Len(log_entries) :
                       log_entries' = SubSeq(Append(log_entries, e), k + 1,
                                             Len(log_entries) + 1)]_vars

-----------------------------------------------------------------------------
(* C25 *)

\* the UI thread is in no handler and the window is not connected
IdleDisconnected == ui = UiIdle /\ ~connected

\* C25: whenever the UI thread has completed its operation, connected is
\* true exactly when serial_worker and worker_thread are set and the
\* worker's running flag is true; in every disconnected state, however it
\* was reached, toggle_connection can attempt a connect; and a
\* toggle_connection on a connected window always ends disconnected.
C25_ConnectedConsistent ==
    /\ [](ui = UiIdle =>
            (connected <=> (/\ serial_worker = "worker"
                            /\ worker_thread = "thread"
                            /\ running)))
    /\ [](IdleDisconnected => ENABLED (LinkConnect \/ ConnectFails))
    /\ (ui.by = "toggle_connection" /\ ui.at = "stop") ~> IdleDisconnected

\* a dropped connection has been handled: the reader left through its except
\* clause, on_connection_lost has disconnected and shown its message
C25_Witness ==
    /\ IdleDisconnected
    /\ fault
    /\ pc = "done"
    /\ message_box = "Connection Lost"
    /\ serial_worker = "None"
    /\ ~running

-----------------------------------------------------------------------------
(* C26 *)

\* C26 as claimed: while the window is disconnected and the UI thread is in
\* no handler, no step appends an entry to the store and no queued signal of
\* the reader thread is delivered.
C26_NothingAfterDisconnect ==
    [][IdleDisconnected =>
          /\ log_entries' = log_entries
          /\ ~(events # <<>> /\ events' = Tail(events))]_vars

====
